---- MODULE Spec2Model ----
(***************************************************************************)
(* Model of tauri/src-tauri/src/lib.rs: the launcher of the tsw_io desktop *)
(* application.  The foreground context runs the setup closure of run()    *)
(* (splash window, sidecar command, child spawn, thread spawn).  The       *)
(* background thread runs wait_for_backend() (a bounded probe loop) and    *)
(* then either builds the main window or reports failure and exits.        *)
(***************************************************************************)
EXTENDS Integers, Sequences, FiniteSets, TLC

\* ---------------------------------------------------------------- constants
BACKEND_PORT == 4000
MAX_RETRIES == 120
RETRY_DELAY_MS == 500
EXIT_FAILURE == 1

\* exitCode while the process has not called std::process::exit
NoExit == 0 - 1

\* What reqwest::blocking::get can hand back: an HTTP status code of a
\* response, or no response at all (connection refused, DNS, transport).
TransportErr == 0
StatusCodes == {200, 204, 301, 404, 503}
Responses == StatusCodes \cup {TransportErr}

\* Status texts of the splash screen
STARTING == "Starting server..."
MIGRATING == "Running database migrations..."
ALMOST == "Almost ready..."
FAILED_TEXT == "Failed to start. Please restart the app."
INITIAL_TEXT == ""

\* URLs built with format!()
HealthUrl == [scheme |-> "http", host |-> "localhost", port |-> BACKEND_PORT, path |-> "/api/health"]
BaseUrl == [scheme |-> "http", host |-> "localhost", port |-> BACKEND_PORT, path |-> ""]
NoUrl == [scheme |-> "", host |-> "", port |-> 0, path |-> ""]

VARIABLES
    fg_pc,        \* position of the setup closure (foreground context)
    bg_pc,        \* position of the spawned thread (background context)
    splashOpen,   \* the splash (loading) window exists and is not closed
    splashText,   \* text of the splash's status element
    children,     \* number of backend child processes spawned
    failedStep,   \* the setup step that failed, "none" if none did
    splashFound,  \* wait_for_backend: get_webview_window("splash") is Some
    attempt,      \* loop variable of wait_for_backend
    probes,       \* number of check_backend_ready() calls made
    probedUrl,    \* URL of the last probe
    lastResp,     \* what the last probe's request gave
    nonReady,     \* number of probes that did not match Ok(true)
    readyAt,      \* attempt whose probe matched Ok(true), 0 if none
    errLogs,      \* number of times the Err(e) arm ran
    statusLog,    \* the status texts derived, one record per eval call
    evalFailed,   \* some window.eval call returned Err
    lastEval,     \* result of the latest window.eval: "none", "ok" or "err"
    delays,       \* number of inter-attempt sleeps taken
    waitedMs,     \* total time slept in the loop
    outcomes,     \* values returned by wait_for_backend, in order
    post,         \* steps the thread took after wait_for_backend returned
    mainExists,   \* the main window has been built
    mainUrl,      \* the URL the main window points at
    mainShown,    \* main_window.show() succeeded
    closeRes,     \* result of splash_handle.close(): "none", "ok" or "err"
    showRes,      \* result of main_window.show(): "none", "ok" or "err"
    exitCode      \* status given to std::process::exit, NoExit if not called

vars == <<fg_pc, bg_pc, splashOpen, splashText, children, splashFound, attempt,
          probes, probedUrl, lastResp, nonReady, readyAt, errLogs, statusLog,
          evalFailed, delays, waitedMs, outcomes, post, mainExists, mainUrl,
          mainShown, exitCode, failedStep, closeRes, showRes, lastEval>>

fgVars == <<fg_pc, splashOpen, children, failedStep>>
loopVars == <<splashFound, attempt, probes, probedUrl, lastResp, nonReady, readyAt,
              errLogs, statusLog, delays, waitedMs, outcomes>>
mainVars == <<mainExists, mainUrl, mainShown, closeRes, showRes>>

\* ------------------------------------------------------------ pure functions

\* variant: only 200 OK counts as success
is_success_Only200(code) == code = 200

\* reqwest StatusCode::is_success: 200..=299
is_success(code) == code >= 200 /\ code <= 299

\* variant: a non-success status is handed on as Err(..)
check_backend_ready_ErrOnStatus(resp) ==
    IF resp # TransportErr
    THEN IF is_success(resp) THEN [ok |-> TRUE, val |-> TRUE]
                            ELSE [ok |-> FALSE, val |-> FALSE]
    ELSE [ok |-> TRUE, val |-> FALSE]

\* variant: any response at all counts as ready (status not looked at)
check_backend_ready_AnyResponse(resp) ==
    IF resp # TransportErr
    THEN [ok |-> TRUE, val |-> TRUE]
    ELSE [ok |-> TRUE, val |-> FALSE]

\* variant: a transport failure is handed on as Err(..)
check_backend_ready_ErrOnTransport(resp) ==
    IF resp # TransportErr
    THEN IF is_success(resp) THEN [ok |-> TRUE, val |-> TRUE]
                            ELSE [ok |-> TRUE, val |-> FALSE]
    ELSE [ok |-> FALSE, val |-> FALSE]

\* check_backend_ready(): Result<bool, String> for one request outcome
check_backend_ready(resp) ==
    IF resp # TransportErr
    THEN IF is_success(resp) THEN [ok |-> TRUE, val |-> TRUE]
                            ELSE [ok |-> TRUE, val |-> FALSE]
    ELSE [ok |-> TRUE, val |-> FALSE]

\* the match of wait_for_backend over the probe's result
MatchArm(r) ==
    IF r.ok /\ r.val THEN "ready"
    ELSE IF r.ok THEN "notready"
    ELSE "err"

\* variant: band limits taken inclusively
StatusFor_Inclusive(a) ==
    IF a <= 10 THEN STARTING
    ELSE IF a <= 30 THEN MIGRATING
    ELSE ALMOST

\* the status text chosen for an attempt number
StatusFor(a) ==
    IF a < 10 THEN STARTING
    ELSE IF a < 30 THEN MIGRATING
    ELSE ALMOST

\* variant: one iteration too many
LoopContinues_OneMore(a) == a <= MAX_RETRIES

\* variant: one iteration too few (1..MAX_RETRIES, exclusive)
LoopContinues_OneLess(a) == a < MAX_RETRIES - 1

\* for attempt in 1..=MAX_RETRIES: is there an iteration after attempt a
LoopContinues(a) == a < MAX_RETRIES

\* variant: the result of wait_for_backend is not looked at
TakesMainBranch_Always(ret) == TRUE

\* if wait_for_backend(&handle) { ... } else { ... }
TakesMainBranch(ret) == ret = TRUE

\* ------------------------------------------------------------------- state

Running == exitCode = NoExit /\ fg_pc # "aborted"

Init ==
    /\ fg_pc = "build_splash"
    /\ bg_pc = "idle"
    /\ splashOpen = FALSE
    /\ splashText = INITIAL_TEXT
    /\ children = 0
    /\ failedStep = "none"
    /\ splashFound = FALSE
    /\ attempt = 0
    /\ probes = 0
    /\ probedUrl = NoUrl
    /\ lastResp = TransportErr
    /\ nonReady = 0
    /\ readyAt = 0
    /\ errLogs = 0
    /\ statusLog = <<>>
    /\ evalFailed = FALSE
    /\ lastEval = "none"
    /\ delays = 0
    /\ waitedMs = 0
    /\ outcomes = <<>>
    /\ post = <<>>
    /\ mainExists = FALSE
    /\ mainUrl = NoUrl
    /\ mainShown = FALSE
    /\ closeRes = "none"
    /\ showRes = "none"
    /\ exitCode = NoExit

\* ------------------------------------------------- foreground: setup closure

\* WebviewWindowBuilder::new(.., "splash", ..).build().expect(..)
BuildSplash(ok) ==
    /\ Running /\ fg_pc = "build_splash"
    /\ IF ok THEN /\ splashOpen' = TRUE
                  /\ fg_pc' = "sidecar"
                  /\ failedStep' = failedStep
             ELSE /\ splashOpen' = FALSE
                  /\ fg_pc' = "aborted"
                  /\ failedStep' = "splash"
    /\ UNCHANGED <<bg_pc, splashText, children, loopVars, evalFailed, lastEval, post, mainVars, exitCode>>

\* handle.shell().sidecar("tsw_io_backend")
SidecarCommand(ok) ==
    /\ Running /\ fg_pc = "sidecar"
    /\ fg_pc' = IF ok THEN "spawn" ELSE "setup_err"
    /\ failedStep' = IF ok THEN failedStep ELSE "sidecar"
    /\ UNCHANGED <<bg_pc, splashOpen, splashText, children, loopVars, evalFailed, lastEval, post,
                   mainVars, exitCode>>

\* variant: a failed spawn is recorded but setup goes on
SpawnChild_IgnoresError(ok) ==
    /\ Running /\ fg_pc = "spawn"
    /\ children' = IF ok THEN children + 1 ELSE children
    /\ failedStep' = IF ok THEN failedStep ELSE "spawn"
    /\ fg_pc' = "spawn_thread"
    /\ UNCHANGED <<bg_pc, splashOpen, splashText, loopVars, evalFailed, lastEval, post, mainVars, exitCode>>

\* sidecar.env(..).env(..).env(..).spawn()
SpawnChild(ok) ==
    /\ Running /\ fg_pc = "spawn"
    /\ IF ok THEN /\ children' = children + 1
                  /\ fg_pc' = "spawn_thread"
                  /\ failedStep' = failedStep
             ELSE /\ children' = children
                  /\ fg_pc' = "setup_err"
                  /\ failedStep' = "spawn"
    /\ UNCHANGED <<bg_pc, splashOpen, splashText, loopVars, evalFailed, lastEval, post, mainVars, exitCode>>

\* std::thread::spawn(move || { ... })
SpawnThread ==
    /\ Running /\ fg_pc = "spawn_thread"
    /\ fg_pc' = "return_ok"
    /\ bg_pc' = "get_splash"
    /\ UNCHANGED <<failedStep, splashOpen, splashText, children, loopVars, evalFailed, lastEval, post, mainVars, exitCode>>

\* variant: setup joins the thread before it returns
SetupReturn_Joins ==
    /\ Running /\ fg_pc = "return_ok"
    /\ bg_pc \in {"done", "panicked"}
    /\ fg_pc' = "setup_ok"
    /\ UNCHANGED <<failedStep, bg_pc, splashOpen, splashText, children, loopVars, evalFailed, lastEval, post,
                   mainVars, exitCode>>

\* Ok(()) at the end of the closure
SetupReturn ==
    /\ Running /\ fg_pc = "return_ok"
    /\ fg_pc' = "setup_ok"
    /\ UNCHANGED <<failedStep, bg_pc, splashOpen, splashText, children, loopVars, evalFailed, lastEval, post,
                   mainVars, exitCode>>

\* return Err(Box::new(e)): the application does not start
SetupAbort ==
    /\ Running /\ fg_pc = "setup_err"
    /\ fg_pc' = "aborted"
    /\ UNCHANGED <<failedStep, bg_pc, splashOpen, splashText, children, loopVars, evalFailed, lastEval, post,
                   mainVars, exitCode>>

\* ------------------------------------------- background: wait_for_backend

\* variant: the loop counts from 0 (0..MAX_RETRIES)
GetSplash_FromZero(found) ==
    /\ Running /\ bg_pc = "get_splash"
    /\ splashFound' = found
    /\ attempt' = 0
    /\ bg_pc' = "probe"
    /\ UNCHANGED <<fgVars, splashText, probes, probedUrl, lastResp, nonReady, readyAt,
                   errLogs, statusLog, evalFailed, lastEval, delays, waitedMs, outcomes, post,
                   mainVars, exitCode>>

\* let splash_window = handle.get_webview_window("splash"); first iteration
GetSplash(found) ==
    /\ Running /\ bg_pc = "get_splash"
    /\ splashFound' = found
    /\ attempt' = 1
    /\ bg_pc' = "probe"
    /\ UNCHANGED <<fgVars, splashText, probes, probedUrl, lastResp, nonReady, readyAt,
                   errLogs, statusLog, evalFailed, lastEval, delays, waitedMs, outcomes, post,
                   mainVars, exitCode>>

\* match check_backend_ready() { ... }
Probe(resp) ==
    /\ Running /\ bg_pc = "probe"
    /\ probes' = probes + 1
    /\ probedUrl' = HealthUrl
    /\ lastResp' = resp
    /\ LET arm == MatchArm(check_backend_ready(resp)) IN
         /\ bg_pc' = CASE arm = "ready" -> "branch"
                       [] arm = "notready" -> "status"
                       [] OTHER -> "sleep"
         /\ readyAt' = IF arm = "ready" THEN attempt ELSE readyAt
         /\ outcomes' = IF arm = "ready" THEN Append(outcomes, TRUE) ELSE outcomes
         /\ nonReady' = IF arm = "ready" THEN nonReady ELSE nonReady + 1
         /\ errLogs' = IF arm = "err" THEN errLogs + 1 ELSE errLogs
    /\ UNCHANGED <<fgVars, splashText, splashFound, attempt, statusLog, evalFailed, lastEval,
                   delays, waitedMs, post, mainVars, exitCode>>

\* variant: the status is pushed whether or not the splash window was found
StatusPush_Always(evalOk) ==
    /\ Running /\ bg_pc = "status"
    /\ statusLog' = Append(statusLog, [attempt |-> attempt, text |-> StatusFor(attempt)])
    /\ splashText' = IF evalOk THEN StatusFor(attempt) ELSE splashText
    /\ evalFailed' = (evalFailed \/ ~evalOk)
    /\ lastEval' = IF evalOk THEN "ok" ELSE "err"
    /\ bg_pc' = "sleep"
    /\ UNCHANGED <<fgVars, splashFound, attempt, probes, probedUrl, lastResp, nonReady,
                   readyAt, errLogs, delays, waitedMs, outcomes, post, mainVars, exitCode>>

\* variant: an eval error is propagated and ends the loop with `false`
StatusPush_AbortsOnEvalError(evalOk) ==
    /\ Running /\ bg_pc = "status"
    /\ IF splashFound
       THEN /\ statusLog' = Append(statusLog, [attempt |-> attempt, text |-> StatusFor(attempt)])
            /\ splashText' = IF evalOk THEN StatusFor(attempt) ELSE splashText
            /\ evalFailed' = (evalFailed \/ ~evalOk)
            /\ lastEval' = IF evalOk THEN "ok" ELSE "err"
            /\ bg_pc' = IF evalOk THEN "sleep" ELSE "branch"
            /\ outcomes' = IF evalOk THEN outcomes ELSE Append(outcomes, FALSE)
       ELSE /\ UNCHANGED <<statusLog, splashText, evalFailed, lastEval, outcomes>>
            /\ bg_pc' = "sleep"
    /\ UNCHANGED <<fgVars, splashFound, attempt, probes, probedUrl, lastResp, nonReady,
                   readyAt, errLogs, delays, waitedMs, post, mainVars, exitCode>>

\* Ok(false) arm: if let Some(ref window) = splash_window { let _ = window.eval(..) }
StatusPush(evalOk) ==
    /\ Running /\ bg_pc = "status"
    /\ IF splashFound
       THEN /\ statusLog' = Append(statusLog, [attempt |-> attempt, text |-> StatusFor(attempt)])
            /\ splashText' = IF evalOk THEN StatusFor(attempt) ELSE splashText
            /\ evalFailed' = (evalFailed \/ ~evalOk)
            /\ lastEval' = IF evalOk THEN "ok" ELSE "err"
       ELSE UNCHANGED <<statusLog, splashText, evalFailed, lastEval>>
    /\ bg_pc' = "sleep"
    /\ UNCHANGED <<fgVars, splashFound, attempt, probes, probedUrl, lastResp, nonReady,
                   readyAt, errLogs, delays, waitedMs, outcomes, post, mainVars, exitCode>>

\* variant: no sleep after the last attempt
Sleep_SkipsLast ==
    /\ Running /\ bg_pc = "sleep"
    /\ IF LoopContinues(attempt)
       THEN /\ delays' = delays + 1
            /\ waitedMs' = waitedMs + RETRY_DELAY_MS
            /\ attempt' = attempt + 1
            /\ bg_pc' = "probe"
            /\ outcomes' = outcomes
       ELSE /\ UNCHANGED <<delays, waitedMs, attempt>>
            /\ bg_pc' = "branch"
            /\ outcomes' = Append(outcomes, FALSE)
    /\ UNCHANGED <<fgVars, splashText, splashFound, probes, probedUrl, lastResp, nonReady,
                   readyAt, errLogs, statusLog, evalFailed, lastEval, post, mainVars, exitCode>>

\* variant: the child is spawned again after a probe that was not ready
Sleep_Respawns ==
    /\ Running /\ bg_pc = "sleep"
    /\ delays' = delays + 1
    /\ waitedMs' = waitedMs + RETRY_DELAY_MS
    /\ children' = children + 1
    /\ IF LoopContinues(attempt)
       THEN /\ attempt' = attempt + 1
            /\ bg_pc' = "probe"
            /\ outcomes' = outcomes
       ELSE /\ attempt' = attempt
            /\ bg_pc' = "branch"
            /\ outcomes' = Append(outcomes, FALSE)
    /\ UNCHANGED <<fg_pc, splashOpen, failedStep, splashText, splashFound, probes, probedUrl,
                   lastResp, nonReady, readyAt, errLogs, statusLog, evalFailed, lastEval, post,
                   mainVars, exitCode>>

\* std::thread::sleep(RETRY_DELAY_MS); next iteration, or `false` after the loop
Sleep ==
    /\ Running /\ bg_pc = "sleep"
    /\ delays' = delays + 1
    /\ waitedMs' = waitedMs + RETRY_DELAY_MS
    /\ IF LoopContinues(attempt)
       THEN /\ attempt' = attempt + 1
            /\ bg_pc' = "probe"
            /\ outcomes' = outcomes
       ELSE /\ attempt' = attempt
            /\ bg_pc' = "branch"
            /\ outcomes' = Append(outcomes, FALSE)
    /\ UNCHANGED <<fgVars, splashText, splashFound, probes, probedUrl, lastResp, nonReady,
                   readyAt, errLogs, statusLog, evalFailed, lastEval, post, mainVars, exitCode>>

\* --------------------------------- background: after wait_for_backend returns

Ret == outcomes[Len(outcomes)]

\* variant: the splash is closed before the main window is built
BuildMain_ClosesFirst(ok) ==
    /\ Running /\ bg_pc = "branch" /\ TakesMainBranch(Ret)
    /\ post' = Append(post, "build_main")
    /\ splashOpen' = FALSE
    /\ closeRes' = "ok"
    /\ IF ok THEN /\ mainExists' = TRUE
                  /\ mainUrl' = BaseUrl
                  /\ bg_pc' = "show_main"
             ELSE /\ UNCHANGED <<mainExists, mainUrl>>
                  /\ bg_pc' = "panicked"
    /\ UNCHANGED <<fg_pc, children, failedStep, splashText, loopVars, evalFailed, lastEval,
                   mainShown, showRes, exitCode>>

\* WebviewWindowBuilder::new(.., "main", External(url)).build().expect(..)
BuildMain(ok) ==
    /\ Running /\ bg_pc = "branch" /\ TakesMainBranch(Ret)
    /\ post' = Append(post, "build_main")
    /\ IF ok THEN /\ mainExists' = TRUE
                  /\ mainUrl' = BaseUrl
                  /\ bg_pc' = "close_splash"
             ELSE /\ UNCHANGED <<mainExists, mainUrl>>
                  /\ bg_pc' = "panicked"
    /\ UNCHANGED <<fgVars, splashText, loopVars, evalFailed, lastEval, mainShown, closeRes, showRes,
                   exitCode>>

\* let _ = splash_handle.close();
CloseSplash(ok) ==
    /\ Running /\ bg_pc = "close_splash"
    /\ post' = Append(post, "close_splash")
    /\ splashOpen' = IF ok THEN FALSE ELSE splashOpen
    /\ closeRes' = IF ok THEN "ok" ELSE "err"
    /\ bg_pc' = "show_main"
    /\ UNCHANGED <<fg_pc, children, failedStep, splashText, loopVars, evalFailed, lastEval,
                   mainExists, mainUrl, mainShown, showRes, exitCode>>

\* let _ = main_window.show();
ShowMain(ok) ==
    /\ Running /\ bg_pc = "show_main"
    /\ post' = Append(post, "show_main")
    /\ mainShown' = ok
    /\ showRes' = IF ok THEN "ok" ELSE "err"
    /\ bg_pc' = "done"
    /\ UNCHANGED <<fgVars, splashText, loopVars, evalFailed, lastEval, mainExists, mainUrl, closeRes,
                   exitCode>>

\* variant: no hold between the error message and the exit
ErrorPush_NoHold(evalOk) ==
    /\ Running /\ bg_pc = "branch" /\ ~TakesMainBranch(Ret)
    /\ post' = Append(post, "error_push")
    /\ splashText' = IF evalOk THEN FAILED_TEXT ELSE splashText
    /\ evalFailed' = (evalFailed \/ ~evalOk)
    /\ lastEval' = IF evalOk THEN "ok" ELSE "err"
    /\ bg_pc' = "exit"
    /\ UNCHANGED <<fgVars, loopVars, mainVars, exitCode>>

\* else branch: let _ = splash_handle.eval("...'Failed to start. ...'");
ErrorPush(evalOk) ==
    /\ Running /\ bg_pc = "branch" /\ ~TakesMainBranch(Ret)
    /\ post' = Append(post, "error_push")
    /\ splashText' = IF evalOk THEN FAILED_TEXT ELSE splashText
    /\ evalFailed' = (evalFailed \/ ~evalOk)
    /\ lastEval' = IF evalOk THEN "ok" ELSE "err"
    /\ bg_pc' = "hold"
    /\ UNCHANGED <<fgVars, loopVars, mainVars, exitCode>>

\* std::thread::sleep(Duration::from_secs(3));
Hold ==
    /\ Running /\ bg_pc = "hold"
    /\ post' = Append(post, "hold")
    /\ bg_pc' = "exit"
    /\ UNCHANGED <<fgVars, splashText, loopVars, evalFailed, lastEval, mainVars, exitCode>>

\* std::process::exit(1);
Exit ==
    /\ Running /\ bg_pc = "exit"
    /\ post' = Append(post, "exit")
    /\ exitCode' = EXIT_FAILURE
    /\ bg_pc' = "exited"
    /\ UNCHANGED <<fgVars, splashText, loopVars, evalFailed, lastEval, mainVars>>

\* ------------------------------------------------------------ specification

FgNext ==
    \/ \E ok \in BOOLEAN : BuildSplash(ok)
    \/ \E ok \in BOOLEAN : SidecarCommand(ok)
    \/ \E ok \in BOOLEAN : SpawnChild(ok)
    \/ SpawnThread
    \/ SetupReturn
    \/ SetupAbort

BgNext ==
    \/ \E found \in BOOLEAN : GetSplash(found)
    \/ \E resp \in Responses : Probe(resp)
    \/ \E evalOk \in BOOLEAN : StatusPush(evalOk)
    \/ Sleep
    \/ \E ok \in BOOLEAN : BuildMain(ok)
    \/ \E ok \in BOOLEAN : CloseSplash(ok)
    \/ \E ok \in BOOLEAN : ShowMain(ok)
    \/ \E evalOk \in BOOLEAN : ErrorPush(evalOk)
    \/ Hold
    \/ Exit

Next == FgNext \/ BgNext

Spec == Init /\ [][Next]_vars

\* The operating system schedules both threads; every probe, eval and sleep
\* returns, so neither context stalls forever while it has a step to take.
FairSpec == Spec /\ WF_vars(FgNext) /\ WF_vars(BgNext)

\* ---------------------------------------------------------------- properties

InLoop == bg_pc \in {"get_splash", "probe", "status", "sleep"}
NotStarted == bg_pc = "idle"
Returned == ~NotStarted /\ ~InLoop

IsPrefix(s, t) == Len(s) <= Len(t) /\ \A i \in 1..Len(s) : s[i] = t[i]
MainPath == <<"build_main", "close_splash", "show_main">>
FailPath == <<"error_push", "hold", "exit">>

\* a 2xx response, stated without the model's is_success
Is2xx(resp) == resp \in 200..299
ProbedReady == probes > 0 /\ Is2xx(lastResp)

\* C1: once started, wait_for_backend returns exactly one value, true
\* (BackendReady) or false (BackendFailed), exactly once; that value makes the
\* thread enter exactly one of the two branches (build/show the main window,
\* or error message + exit), never both, and it does enter one.
C1_OneOutcomeOneAction ==
    /\ [](Len(outcomes) <= 1)
    /\ [](InLoop \/ NotStarted => outcomes = <<>> /\ post = <<>>)
    /\ [](Returned => Len(outcomes) = 1)
    /\ [](Returned /\ outcomes[1] => IsPrefix(post, MainPath) /\ exitCode = NoExit)
    /\ [](Returned /\ ~outcomes[1] => IsPrefix(post, FailPath) /\ ~mainExists /\ ~mainShown)
    /\ [](exitCode # NoExit => outcomes = <<FALSE>> /\ post = FailPath /\ exitCode = EXIT_FAILURE)
    /\ [](bg_pc = "done" => outcomes = <<TRUE>> /\ post = MainPath)
    /\ [][outcomes # <<>> => outcomes' = outcomes]_vars
    /\ (~NotStarted ~> (Len(outcomes) = 1 /\ post # <<>>))

C1_Witness == bg_pc = "exited" /\ outcomes = <<FALSE>> /\ post = FailPath

\* C2: whatever the probes return, the loop reaches a terminal state (it
\* returns), and it never makes more than MAX_RETRIES probes.
C2_Terminates ==
    /\ [](probes <= MAX_RETRIES /\ attempt <= MAX_RETRIES)
    /\ (bg_pc = "get_splash" ~> Returned)

C2_Witness == Returned /\ probes = MAX_RETRIES /\ outcomes = <<FALSE>>

\* C3: when the probe of attempt k is the first to get a 2xx response, the
\* loop returns true at attempt k with exactly k probes made (k - 1 of them
\* not ready), and no further probe is ever made; a 2xx on attempt 1 means
\* exactly one probe.
C3_StopsAtReady ==
    /\ [](ProbedReady => /\ Returned
                         /\ outcomes = <<TRUE>>
                         /\ readyAt = attempt
                         /\ probes = attempt
                         /\ nonReady = attempt - 1
                         /\ attempt \in 1..MAX_RETRIES)
    /\ [](ProbedReady /\ attempt = 1 => probes = 1)
    /\ [][ProbedReady => probes' = probes /\ attempt' = attempt]_vars

C3_Witness == ProbedReady /\ readyAt = 7 /\ probes = 7 /\ bg_pc = "done"

\* C4: when no probe gets a 2xx response, the loop returns false after
\* exactly MAX_RETRIES probes, false is returned exactly once, and the process
\* ends with exit code 1.
C4_Exhausted ==
    /\ [](Returned /\ ~ProbedReady => /\ outcomes = <<FALSE>>
                                      /\ probes = MAX_RETRIES
                                      /\ nonReady = MAX_RETRIES)
    /\ [](nonReady = MAX_RETRIES => probes = MAX_RETRIES /\ ~ProbedReady)
    /\ [](exitCode # NoExit => exitCode = 1 /\ nonReady = MAX_RETRIES)
    /\ (nonReady = MAX_RETRIES ~> (exitCode = 1 /\ outcomes = <<FALSE>>))

C4_Witness == exitCode = 1 /\ probes = MAX_RETRIES /\ lastResp = TransportErr

\* C5: whenever the main window exists, a probe got a 2xx response before;
\* the main window is never built while the loop is still probing nor after
\* the retries were used up.
C5_MainOnlyAfterReady ==
    (mainExists \/ "build_main" \in {post[i] : i \in 1..Len(post)}) =>
        /\ ProbedReady
        /\ ~InLoop
        /\ outcomes = <<TRUE>>
        /\ nonReady < MAX_RETRIES

C5_Witness == mainExists /\ ProbedReady /\ readyAt = MAX_RETRIES

\* C6: a probe that is not ready never ends the loop by itself.  After a
\* non-2xx response and after a transport failure alike the thread goes to
\* the status update, then sleeps; when the attempt was below MAX_RETRIES the
\* next attempt is made; false is returned only after MAX_RETRIES probes that
\* were not ready.
C6_NoSingleFailureIsFatal ==
    /\ [][probes' = probes + 1 /\ ~Is2xx(lastResp')
            => (bg_pc' = "status" /\ attempt' = attempt /\ outcomes' = outcomes
                /\ nonReady' = nonReady + 1 /\ errLogs' = errLogs)]_vars
    /\ [][(bg_pc \in {"status", "sleep"} /\ attempt < MAX_RETRIES)
            => (bg_pc' \in {"status", "sleep", "probe"}
                /\ outcomes' = outcomes
                /\ (bg_pc' = "probe" => attempt' = attempt + 1))]_vars
    /\ [](bg_pc = "status" => ~Is2xx(lastResp) /\ nonReady = attempt)
    /\ [](FALSE \in {outcomes[i] : i \in 1..Len(outcomes)}
            => nonReady = MAX_RETRIES /\ probes = MAX_RETRIES)
    /\ \A r \in Responses \ {c \in Responses : Is2xx(c)} :
          (bg_pc = "status" /\ lastResp = r /\ attempt < MAX_RETRIES)
              ~> (bg_pc = "probe" /\ probes = attempt - 1)

C6_Witness == bg_pc = "probe" /\ attempt = 5 /\ nonReady = 4 /\ lastResp = TransportErr

\* C7: when building the splash window, getting the sidecar command or
\* spawning the child fails, setup aborts at once: the thread is never
\* started, no probe is made, nothing is retried and no main window is built.
C7_SetupFailureAborts ==
    failedStep # "none" =>
        /\ fg_pc \in {"setup_err", "aborted"}
        /\ bg_pc = "idle"
        /\ probes = 0 /\ attempt = 0 /\ delays = 0
        /\ outcomes = <<>> /\ post = <<>>
        /\ ~mainExists
        /\ children = 0
        /\ (failedStep = "splash" => ~splashOpen)

C7_Witness == failedStep = "spawn" /\ fg_pc = "aborted"

\* C8: the status text derived on a non-ready attempt a depends on a only:
\* a < 10 gives STARTING, 10 <= a < 30 gives MIGRATING, a >= 30 gives ALMOST;
\* with a first 2xx on attempt 30 the texts of attempts 10..29 are MIGRATING.
C8_StatusBands ==
    /\ \A i \in 1..Len(statusLog) :
          LET a == statusLog[i].attempt
              t == statusLog[i].text IN
            /\ a = i /\ a \in 1..MAX_RETRIES
            /\ (a < 10 => t = "Starting server...")
            /\ (a >= 10 /\ a < 30 => t = "Running database migrations...")
            /\ (a >= 30 => t = "Almost ready...")
    /\ (readyAt = 30 /\ splashFound =>
            /\ Len(statusLog) = 29
            /\ \A a \in 10..29 : statusLog[a].text = "Running database migrations...")
    /\ (splashText # INITIAL_TEXT /\ ~Returned =>
            splashText \in {statusLog[i].text : i \in 1..Len(statusLog)})

C8_Witness == Len(statusLog) = MAX_RETRIES /\ splashText = ALMOST

\* C9 as stated: on the failure path the thread pushes the error text, holds,
\* then exits with status 1, in this order; no main window is built; and
\* setup had already returned Ok(()) before these steps.
C9_SetupReturnedBeforeFailure ==
    (Returned /\ outcomes = <<FALSE>>) =>
        /\ IsPrefix(post, FailPath)
        /\ ~mainExists
        /\ (exitCode # NoExit => exitCode = 1 /\ post = FailPath)
        /\ (post # <<>> => fg_pc = "setup_ok")

\* C9 amended: same order and no main window; setup has started the thread,
\* so it can no longer fail: it has returned Ok(()) or has only that left.
C9_FailurePathOrder ==
    /\ (Returned /\ outcomes = <<FALSE>>) =>
          /\ IsPrefix(post, FailPath)
          /\ ~mainExists
          /\ (exitCode # NoExit => exitCode = 1 /\ post = FailPath)
          /\ fg_pc \in {"return_ok", "setup_ok"}
          /\ failedStep = "none"
    /\ (bg_pc = "hold" => post = <<"error_push">>)
    /\ (bg_pc = "exit" => post = <<"error_push", "hold">>)
    /\ (bg_pc = "exited" => post = FailPath /\ exitCode = 1)
    /\ (exitCode = NoExit => bg_pc # "exited")

C9_Witness == exitCode = 1 /\ post = FailPath /\ splashText = FAILED_TEXT /\ fg_pc = "setup_ok"

\* C10: on the success path the main window is built at the
\* backend's base URL, then the splash is closed and the main window shown;
\* afterwards the splash is closed, the main window is shown and the process
\* has not exited with status 1.
C10_SplashClosedMainShown ==
    bg_pc = "done" =>
        /\ post = MainPath
        /\ mainExists /\ mainUrl = BaseUrl
        /\ ~splashOpen
        /\ mainShown
        /\ exitCode # 1

\* C11: the Result of a status update is dropped.  Whether window.eval
\* succeeds or fails, the step after it is the sleep with the same attempt,
\* probe count, delays and outcome; the error-message eval of the failure
\* branch is likewise followed by the hold and by exit(1).
C11_EvalFailureIgnored ==
    /\ [][(bg_pc = "status" /\ bg_pc' # bg_pc)
            => (bg_pc' = "sleep"
                /\ UNCHANGED <<attempt, probes, nonReady, delays, waitedMs, outcomes, exitCode>>)]_vars
    /\ [][(bg_pc = "branch" /\ bg_pc' # bg_pc /\ outcomes = <<FALSE>>)
            => (bg_pc' = "hold"
                /\ UNCHANGED <<attempt, probes, nonReady, delays, waitedMs, outcomes, exitCode>>)]_vars
    /\ [](lastEval = "err" /\ InLoop => outcomes = <<>>)
    /\ [](lastEval = "err" /\ bg_pc = "sleep" => probes = attempt /\ delays = attempt - 1)
    /\ [](lastEval = "err" /\ Returned /\ ~ProbedReady
            => probes = MAX_RETRIES /\ delays = MAX_RETRIES /\ outcomes = <<FALSE>>)
    /\ ((lastEval = "err" /\ bg_pc = "sleep" /\ attempt < MAX_RETRIES) ~> (bg_pc = "probe"))
    /\ ((lastEval = "err" /\ bg_pc = "hold") ~> (exitCode = 1))

C11_Witness ==
    /\ exitCode = 1 /\ probes = MAX_RETRIES /\ delays = MAX_RETRIES
    /\ lastEval = "err" /\ splashText = INITIAL_TEXT /\ Len(statusLog) = MAX_RETRIES

\* C12: one probe is classified by its request: a 2xx response is Ready (the
\* loop returns true at this attempt); a non-2xx response is NotReady (counted
\* as not ready, nothing logged as an error); no response is a TransportError,
\* which is logged by the Err arm and otherwise counted as not ready.
C12_ProbeClassification ==
    probes > 0 =>
        /\ (Is2xx(lastResp) => readyAt = attempt /\ outcomes = <<TRUE>>)
        /\ (lastResp \in StatusCodes /\ ~Is2xx(lastResp) => readyAt = 0 /\ nonReady >= 1)
        /\ (lastResp = TransportErr => readyAt = 0 /\ nonReady >= 1 /\ errLogs >= 1)

\* The background context alone writes the attempt counter and produces the
\* outcome: a step that changes either leaves the foreground's state alone
\* and is taken from inside the loop.
SoleWriter ==
    [][(attempt' # attempt \/ outcomes' # outcomes)
         => (InLoop /\ bg_pc' # bg_pc /\ UNCHANGED fgVars)]_vars

\* The return of setup waits for nothing of the thread: it can be taken in
\* every state in which setup stands before it and the process is alive.
ReturnNeverBlocked ==
    [](fg_pc = "return_ok" /\ exitCode = NoExit => ENABLED SetupReturn)

\* C13 as stated: the loop never blocks the foreground; in every interleaving
\* setup completes (returns Ok(())) without waiting for a probe or a sleep;
\* the background is the only writer of the attempt counter and the only
\* source of the outcome.
C13_SetupCompletesAlways ==
    /\ ReturnNeverBlocked
    /\ SoleWriter
    /\ (fg_pc = "return_ok" ~> fg_pc = "setup_ok")

\* C13 amended: the same, but setup completes only if the thread's exit(1)
\* has not ended the process before setup gets to return.
C13_SetupNeverBlocked ==
    /\ ReturnNeverBlocked
    /\ SoleWriter
    /\ [](fg_pc = "setup_ok" => failedStep = "none" /\ children = 1)
    /\ (fg_pc = "return_ok" ~> (fg_pc = "setup_ok" \/ exitCode = 1))

C13_Witness == fg_pc = "setup_ok" /\ bg_pc = "get_splash" /\ probes = 0 /\ delays = 0

\* C14: at most one backend child is ever spawned and none is spawned again
\* after any probe, exhaustion included; the splash window is built before
\* the child is spawned, and the child is spawned before the first probe: no
\* probe is made unless the spawn succeeded.
C14_OneChildInOrder ==
    /\ [](children <= 1)
    /\ [](children = 1 => failedStep = "none" /\ (splashOpen \/ closeRes = "ok"))
    /\ [](~NotStarted \/ probes > 0 \/ attempt > 0 => children = 1)
    /\ [][children' # children
            => (children' = 1 /\ fg_pc = "spawn" /\ splashOpen /\ NotStarted /\ probes = 0)]_vars
    /\ [][probes' # probes => (children = 1 /\ children' = 1)]_vars

C14_Witness == children = 1 /\ bg_pc = "exited" /\ probes = MAX_RETRIES

Iterating == bg_pc \in {"probe", "status", "sleep"}

\* C15: while the loop runs the attempt counter is in 1..MAX_RETRIES; it
\* starts at 1, goes up by exactly 1 per iteration, never goes down or back,
\* and never exceeds MAX_RETRIES: the loop is exhausted with the counter at
\* MAX_RETRIES, not at MAX_RETRIES + 1.
C15_AttemptCounter ==
    /\ [](Iterating => attempt \in 1..MAX_RETRIES)
    /\ [](attempt <= MAX_RETRIES)
    /\ [](bg_pc = "probe" => probes = attempt - 1)
    /\ [](bg_pc \in {"status", "sleep"} => probes = attempt)
    /\ [](Returned /\ outcomes = <<FALSE>> => attempt = MAX_RETRIES)
    /\ [][(bg_pc = "get_splash" /\ bg_pc' # bg_pc) => (attempt' = 1 /\ bg_pc' = "probe")]_vars
    /\ [][(Iterating /\ attempt' # attempt) => (attempt' = attempt + 1 /\ bg_pc = "sleep")]_vars
    /\ [][(~Iterating /\ bg_pc # "get_splash") => attempt' = attempt]_vars

C15_Witness == bg_pc = "sleep" /\ attempt = MAX_RETRIES /\ probes = MAX_RETRIES

\* C16: every attempt that was not ready is followed by exactly one delay of
\* 500 ms and a ready attempt by none; the loop returns false after exactly
\* MAX_RETRIES delays (the one after the last attempt included), so the total
\* wait is at most MAX_RETRIES x RETRY_DELAY_MS.
C16_DelayBudget ==
    /\ waitedMs = delays * 500
    /\ delays <= MAX_RETRIES
    /\ waitedMs <= MAX_RETRIES * RETRY_DELAY_MS
    /\ (bg_pc = "probe" => delays = nonReady)
    /\ (bg_pc \in {"status", "sleep"} => delays = nonReady - 1)
    /\ (Returned /\ ProbedReady => delays = nonReady /\ delays = readyAt - 1)
    /\ (Returned /\ ~ProbedReady => delays = MAX_RETRIES /\ waitedMs = 60000)

C16_Witness == Returned /\ ~ProbedReady /\ delays = MAX_RETRIES /\ waitedMs = 60000

\* C17: a status text is pushed only on an attempt that was not ready and
\* only when the splash window was found at the start of the loop; in such an
\* iteration the order is probe, push, delay, increment; the ready attempt
\* pushes nothing, so a first 2xx on attempt k leaves exactly k - 1 pushes,
\* and none at all when no splash window was found.
C17_StatusPushes ==
    /\ [](~splashFound => statusLog = <<>>)
    /\ [](~splashFound /\ InLoop => lastEval = "none")
    /\ [](splashFound /\ bg_pc = "probe" => Len(statusLog) = attempt - 1 /\ delays = attempt - 1)
    /\ [](bg_pc = "status" => /\ probes = attempt /\ ~Is2xx(lastResp)
                              /\ (splashFound => Len(statusLog) = attempt - 1)
                              /\ delays = attempt - 1)
    /\ [](bg_pc = "sleep" => /\ probes = attempt
                             /\ (splashFound => Len(statusLog) = attempt)
                             /\ delays = attempt - 1)
    /\ [](ProbedReady => Len(statusLog) = IF splashFound THEN readyAt - 1 ELSE 0)
    /\ [][statusLog' # statusLog
            => (bg_pc = "status" /\ splashFound /\ ~Is2xx(lastResp)
                /\ Len(statusLog') = Len(statusLog) + 1 /\ UNCHANGED <<delays, attempt>>)]_vars

C17_Witness == ProbedReady /\ splashFound /\ readyAt = 5 /\ Len(statusLog) = 4 /\ bg_pc = "done"

\* C18: check_backend_ready never returns Err: a transport failure becomes
\* Ok(false).  The Err arm of wait_for_backend therefore never runs, and
\* every attempt that is not ready, a transport failure included, goes
\* through the status-update arm before it sleeps.
C18_ErrArmUnreachable ==
    /\ [](errLogs = 0)
    /\ [](probes > 0 /\ ~Is2xx(lastResp) /\ Iterating
            => bg_pc \in {"status", "sleep"} \/ (bg_pc = "probe" /\ probes = attempt - 1))
    /\ [][(bg_pc = "probe" /\ bg_pc' # bg_pc /\ lastResp' = TransportErr) => bg_pc' = "status"]_vars
    /\ [][(bg_pc' = "sleep" /\ bg_pc # "sleep") => bg_pc = "status"]_vars

C18_Witness == bg_pc = "status" /\ lastResp = TransportErr /\ probes = 3 /\ errLogs = 0

\* C19: the splash is closed only after the main window was built; from the
\* moment setup has built the splash, a running process always has the
\* splash or the main window; when building the main window fails after a
\* ready probe the thread stops there: the splash stays open and exit(1) is
\* not called.
C19_SplashOutlivesFailedBuild ==
    /\ [](closeRes # "none" => mainExists)
    /\ [](Running /\ fg_pc # "build_splash" => splashOpen \/ mainExists)
    /\ [](bg_pc = "panicked" => /\ ProbedReady /\ outcomes = <<TRUE>>
                                /\ post = <<"build_main">>
                                /\ ~mainExists /\ splashOpen
                                /\ closeRes = "none" /\ showRes = "none"
                                /\ exitCode = NoExit)
    /\ [][(splashOpen /\ ~splashOpen') => (mainExists /\ bg_pc = "close_splash")]_vars
    /\ [][bg_pc = "panicked"
            => (bg_pc' = "panicked" /\ UNCHANGED <<splashOpen, mainExists, exitCode, post>>)]_vars

C19_Witness == bg_pc = "panicked" /\ splashOpen /\ ~mainExists /\ fg_pc = "setup_ok"

====
